---- MODULE Spec2Model ----
(***************************************************************************)
(* Patient registry (src/main.py) and premium predictor (src/app.py).      *)
(*                                                                         *)
(* Numbers.  A float field is carried as an integer count of hundredths:   *)
(* height 180 is 1.8 m, weight 8000 is 80.0 kg, bmi 2469 is 24.69.  The    *)
(* height code 0 stands for a positive double whose square underflows to   *)
(* 0.0 (the JSON literal 1e-200); negative codes stand for doubles that    *)
(* are not positive.  Within the codes used here the exact quotient and    *)
(* the double quotient round to the same two decimals.                     *)
(*                                                                         *)
(* The JSON file is a record [kind, data, size]: kind "json" holds the     *)
(* dict `data` (a sequence of [id, payload] entries, in the dict's         *)
(* insertion order), "missing" is no file, "empty" a zero-length file,     *)
(* "garbage" text that is no JSON document, "binary" bytes that are no     *)
(* UTF-8 text.  size is the length of the file in bytes.                   *)
(***************************************************************************)
EXTENDS Integers, Sequences, FiniteSets, TLC

VARIABLES
    file,     \* the JSON file DATA_FILE
    resp,     \* the last call and its answer: [op, id, arg, status, body]
    created,  \* history: <<the patient of the last create answering 201>>,
              \* <<>> once any call has saved since
    gone,     \* history: the id last deleted, "" once a create of it answered 201
    thr,      \* per thread: the call in progress, its dict, its answer
    writer,   \* history: the thread that wrote the file last, 0 for none
    app       \* the predictor's last input, feature row and status

vars == <<file, resp, created, gone, thr, writer, app>>

-----------------------------------------------------------------------------
(* Schema: class Patient, class PatientUpdate                              *)

MaxNameLength == 50
MaxAge == 120
Genders == {"Male", "Female", "Other"}
Fields == {"name", "age", "gender", "height", "weight"}

\* Field(gt=0) on a float code: the codes >= 0 are the positive doubles.
FloatGt0(x) == x >= 0

\* FieldValid without the upper limit of age (lt=120 left out).
FieldValid_NoAgeLimit(f, v) ==
    CASE f = "name" -> Len(v) <= MaxNameLength
      [] f = "age" -> v > 0
      [] f = "gender" -> v \in Genders
      [] f = "height" -> FloatGt0(v)
      [] f = "weight" -> FloatGt0(v)

\* The constraints class Patient puts on one field.
FieldValid(f, v) ==
    CASE f = "name" -> Len(v) <= MaxNameLength
      [] f = "age" -> v > 0 /\ v < MaxAge
      [] f = "gender" -> v \in Genders
      [] f = "height" -> FloatGt0(v)
      [] f = "weight" -> FloatGt0(v)

\* Patient(id=..., **d) does not raise: every field present, none None,
\* each within its constraints.  d is [vals, nulls]: the keys holding a
\* value and the keys holding None.
PatientValidates(d) ==
    /\ d.nulls = {}
    /\ Fields \subseteq DOMAIN d.vals
    /\ \A f \in Fields : FieldValid(f, d.vals[f])

\* The constraints class PatientUpdate puts on one field that is not None.
UpdateFieldValid(f, v) ==
    CASE f = "name" -> TRUE
      [] f = "age" -> v > 0
      [] f = "gender" -> v \in Genders
      [] f = "height" -> FloatGt0(v)
      [] f = "weight" -> FloatGt0(v)

\* The request body parses as a PatientUpdate (None is accepted everywhere).
UpdateValidates(u) ==
    \A f \in DOMAIN u.vals : UpdateFieldValid(f, u.vals[f])

-----------------------------------------------------------------------------
(* Derived fields: Patient.bmi, Patient.verdict                            *)

\* weight / height ** 2 raises ZeroDivisionError: the square underflowed.
bmi_raises(weight, height) == height * height = 0

\* bmi cut to two decimals instead of rounded.
bmi_Truncated(weight, height) == (weight * 10000) \div (height * height)

\* round(self.weight / (self.height ** 2), 2), in hundredths, ties to even.
bmi(weight, height) ==
    LET n == weight * 10000
        d == height * height
        q == n \div d
        r == n % d
    IN  IF 2 * r < d THEN q
        ELSE IF 2 * r > d THEN q + 1
        ELSE IF q % 2 = 0 THEN q ELSE q + 1

verdict(b) ==
    IF b < 1850 THEN "Underweight"
    ELSE IF b < 2500 THEN "Normal"
    ELSE IF b < 3000 THEN "Overweight"
    ELSE "Obese"

-----------------------------------------------------------------------------
(* The dict held in the JSON file                                          *)

Keys(data) == {data[i].id : i \in DOMAIN data}

IndexOf(data, id) == CHOOSE i \in DOMAIN data : data[i].id = id

\* data[id]
Lookup(data, id) == data[IndexOf(data, id)].payload

\* data[id] = payload: an existing key keeps its place, a new one goes last.
Put(data, id, payload) ==
    IF id \in Keys(data)
    THEN [data EXCEPT ![IndexOf(data, id)] = [id |-> id, payload |-> payload]]
    ELSE Append(data, [id |-> id, payload |-> payload])

\* del data[id]
Del(data, id) == SelectSeq(data, LAMBDA e : e.id # id)

-----------------------------------------------------------------------------
(* load_data, save_data                                                    *)

Digits(n) == IF n < 10 THEN 1 ELSE IF n < 100 THEN 2 ELSE IF n < 1000 THEN 3 ELSE 4

\* len(repr(x)) of the double a code stands for: 180 is "1.8", 9999 "99.99".
FloatLen(x) ==
    IF x = 0 THEN 6
    ELSE Digits(x \div 100) + 1 + (IF x % 10 = 0 THEN 1 ELSE 2)

\* Bytes of one entry of json.dump(data, f, indent=4).
EntrySize(e) ==
    113 + Len(e.id) + Len(e.payload.name) + Digits(e.payload.age)
        + Len(e.payload.gender) + FloatLen(e.payload.height)
        + FloatLen(e.payload.weight)

RECURSIVE EntriesSize(_)
EntriesSize(data) ==
    IF data = <<>> THEN 0
    ELSE EntrySize(Head(data)) + 2 + EntriesSize(Tail(data))

\* Bytes of json.dump(data, f, indent=4).
Size(data) == IF data = <<>> THEN 2 ELSE EntriesSize(data) + 2

JsonFile(data) == [kind |-> "json", data |-> data, size |-> Size(data)]

\* open(DATA_FILE, "r", encoding="utf-8") / json.load raise an exception
\* load_data does not catch: UnicodeDecodeError is no JSONDecodeError.
load_raises(f) == f.kind = "binary"

\* FileNotFoundError and JSONDecodeError give {}.
load_data(f) == IF f.kind = "json" THEN f.data ELSE <<>>

\* open(DATA_FILE, "w"): the file exists and is empty.
open_w(f) == [kind |-> "empty", data |-> <<>>, size |-> 0]

\* dump that keeps the entries it finds in the file beside its own.
dump_KeepsOthers(f, data) ==
    JsonFile(SelectSeq(f.data, LAMBDA e : e.id \notin Keys(data)) \o data)

\* json.dump and close: the text goes to offset 0 in one write.  Over a
\* longer text another writer has put there since the open, the tail of that
\* text stays behind the new one.
dump(f, data) ==
    IF Size(data) >= f.size THEN JsonFile(data)
    ELSE [kind |-> "garbage", data |-> <<>>, size |-> f.size]

save_data(f, data) == dump(open_w(f), data)

-----------------------------------------------------------------------------
(* patient_out                                                             *)

Plain(payload) == [vals |-> payload, nulls |-> {}]

\* Patient(id=patient_id, **patient_payload), p.bmi or p.verdict raises.
out_raises(id, payload) ==
    \/ ~PatientValidates(Plain(payload))
    \/ bmi_raises(payload.weight, payload.height)

patient_out(id, payload) ==
    LET b == bmi(payload.weight, payload.height)
    IN  [id |-> id, name |-> payload.name, age |-> payload.age,
         gender |-> payload.gender, height |-> payload.height,
         weight |-> payload.weight, bmi |-> b, verdict |-> verdict(b)]

\* model_dump without the exclude: the id stays in the payload.
model_dump_KeepsId(patient) == [f \in Fields \cup {"id"} |-> patient[f]]

\* patient.model_dump(exclude={"id"})
model_dump_exclude_id(patient) == [f \in Fields |-> patient[f]]

\* merge that leaves the stored fields as they are.
merge_DropsUpdate(existing, u) == [vals |-> existing, nulls |-> u.nulls]

\* existing_data.update(update_data), update_data the fields that were set.
merge(existing, u) ==
    [vals |-> [f \in ((DOMAIN existing \cup DOMAIN u.vals) \ u.nulls) |->
                  IF f \in DOMAIN u.vals THEN u.vals[f] ELSE existing[f]],
     nulls |-> u.nulls]

-----------------------------------------------------------------------------
(* sorted(patients, key=lambda p: getattr(p, sort_by), reverse=...)        *)

\* Patient(id=pid, **payload)
MakePatient(id, payload) ==
    [id |-> id, name |-> payload.name, age |-> payload.age,
     gender |-> payload.gender, height |-> payload.height,
     weight |-> payload.weight]

\* getattr(p, sort_by)
KeyOf(p, sort_by) ==
    IF sort_by = "bmi" THEN bmi(p.weight, p.height) ELSE p[sort_by]

Reverse(s) == [i \in 1..Len(s) |-> s[Len(s) + 1 - i]]

\* x put behind every element of the ascending s whose key is not greater.
Insert(s, x, sort_by) ==
    LET later == {i \in DOMAIN s : KeyOf(s[i], sort_by) > KeyOf(x, sort_by)}
        n == IF later = {} THEN Len(s)
             ELSE (CHOOSE i \in later : \A j \in later : i <= j) - 1
    IN  SubSeq(s, 1, n) \o <<x>> \o SubSeq(s, n + 1, Len(s))

\* The stable ascending sort of list.sort.
RECURSIVE StableSort(_, _)
StableSort(s, sort_by) ==
    IF s = <<>> THEN <<>>
    ELSE Insert(StableSort(SubSeq(s, 1, Len(s) - 1), sort_by), s[Len(s)], sort_by)

\* reverse=True reverses the list, sorts it ascending and reverses it again.
sorted(s, sort_by, reverse) ==
    IF reverse THEN Reverse(StableSort(Reverse(s), sort_by))
    ELSE StableSort(s, sort_by)

ValidSortFields == {"height", "weight", "bmi"}
ValidOrders == {"asc", "desc"}

-----------------------------------------------------------------------------
(* Requests                                                                *)

LongName == "Abcdefghijklmnopqrstuvwxyzabcdefghijklmnopqrstuvwxyz"

Body(id, name, age, gender, height, weight) ==
    [id |-> id, name |-> name, age |-> age, gender |-> gender,
     height |-> height, weight |-> weight]

Ids == {"P001", "P002", "P003"}

\* Bodies of POST /create.  The last four do not parse as a Patient.
CreateBodies ==
    {Body("P001", "A", 30, "Male", 180, 8000),
     Body("P001", "A", 31, "Male", 200, 9999)}
    \cup {Body("P001", "A", 31, "Male", 100, w) :
             w \in {1849, 1850, 2500, 3000}}
    \cup {Body("P002", "B", 31, "Female", 100, 2500),
          Body("P003", "C", 31, "Other", 100, 3000),
          Body("P003", "C", 31, "Other", 0, 8000)}
    \cup {Body("P001", "A", 120, "Male", 180, 8000),
          Body("P002", LongName, 31, "Female", 100, 2500),
          Body("P003", "C", 31, "X", 100, 3000),
          Body("P003", "C", 31, "Other", -100, 3000)}

Update(vals, nulls) == [vals |-> vals, nulls |-> nulls]

\* Bodies of PUT /edit/{id}.  The last one does not parse as a PatientUpdate.
UpdateBodies ==
    {Update([age |-> 31], {}),
     Update(<<>>, {}),
     Update([height |-> 100, weight |-> 3000], {}),
     Update([age |-> 120], {}),
     Update([name |-> LongName], {}),
     Update(<<>>, {"age"}),
     Update([age |-> 0], {})}

\* Queries of GET /sort.
SortQueries ==
    (ValidSortFields \X ValidOrders) \cup {<<"foo", "asc">>, <<"bmi", "up">>}

-----------------------------------------------------------------------------
(* State                                                                   *)

NoFile == [kind |-> "missing", data |-> <<>>, size |-> 0]
EmptyFile == [kind |-> "empty", data |-> <<>>, size |-> 0]
GarbageFile == [kind |-> "garbage", data |-> <<>>, size |-> 8]
BinaryFile == [kind |-> "binary", data |-> <<>>, size |-> 2]

InitFiles == {NoFile, EmptyFile, GarbageFile, BinaryFile, JsonFile(<<>>)}

Response(op, id, arg, status, body) ==
    [op |-> op, id |-> id, arg |-> arg, status |-> status, body |-> body]

NoResponse == Response("none", "", <<>>, 0, <<>>)

Threads == {1, 2}

Idle == [pc |-> "idle", op |-> "none", id |-> "", data |-> <<>>,
         status |-> 0, calls |-> 0]

AppIdle == [in |-> <<>>, out |-> <<>>, status |-> 0]

Init ==
    /\ file \in InitFiles
    /\ resp = NoResponse
    /\ created = <<>>
    /\ gone = ""
    /\ thr = [t \in Threads |-> Idle]
    /\ writer = 0
    /\ app = AppIdle

-----------------------------------------------------------------------------
(* Handlers, one request at a time                                         *)

\* Some stored record cannot be turned into its output.
AnyOutRaises(data) ==
    \E i \in DOMAIN data : out_raises(data[i].id, data[i].payload)

\* GET /patients
view_all_patients ==
    /\ resp' =
         IF load_raises(file) THEN Response("list", "", <<>>, 500, <<>>)
         ELSE LET data == load_data(file)
              IN  IF AnyOutRaises(data)
                  THEN Response("list", "", <<>>, 500, <<>>)
                  ELSE Response("list", "", <<>>, 200,
                           [i \in DOMAIN data |->
                               patient_out(data[i].id, data[i].payload)])
    /\ UNCHANGED <<file, created, gone, thr, writer, app>>

\* GET /patients/{patient_id}
view_patient(patient_id) ==
    /\ resp' =
         IF load_raises(file) THEN Response("get", patient_id, <<>>, 500, <<>>)
         ELSE LET data == load_data(file)
              IN  IF patient_id \notin Keys(data)
                  THEN Response("get", patient_id, <<>>, 404, <<>>)
                  ELSE IF out_raises(patient_id, Lookup(data, patient_id))
                  THEN Response("get", patient_id, <<>>, 500, <<>>)
                  ELSE Response("get", patient_id, <<>>, 200,
                           <<patient_out(patient_id, Lookup(data, patient_id))>>)
    /\ UNCHANGED <<file, created, gone, thr, writer, app>>

\* GET /sort
sort_patients(sort_by, order) ==
    LET arg == [sort_by |-> sort_by, order |-> order]
    IN
    /\ resp' =
         IF sort_by \notin ValidSortFields \/ order \notin ValidOrders
         THEN Response("sort", "", arg, 400, <<>>)
         ELSE IF load_raises(file) THEN Response("sort", "", arg, 500, <<>>)
         ELSE LET data == load_data(file)
                  patients == [i \in DOMAIN data |->
                                  MakePatient(data[i].id, data[i].payload)]
                  sorted_patients == sorted(patients, sort_by, order = "desc")
              IN  IF AnyOutRaises(data)
                  THEN Response("sort", "", arg, 500, <<>>)
                  ELSE Response("sort", "", arg, 200,
                           [i \in DOMAIN sorted_patients |->
                               patient_out(sorted_patients[i].id,
                                   model_dump_exclude_id(sorted_patients[i]))])
    /\ UNCHANGED <<file, created, gone, thr, writer, app>>

\* POST /create
create_patient(patient) ==
    LET id == patient.id
        payload == model_dump_exclude_id(patient)
        data == load_data(file)
    IN
    /\ IF ~PatientValidates(Plain(payload))
       THEN /\ resp' = Response("create", id, patient, 422, <<>>)
            /\ UNCHANGED <<file, created, gone>>
       ELSE IF load_raises(file)
       THEN /\ resp' = Response("create", id, patient, 500, <<>>)
            /\ UNCHANGED <<file, created, gone>>
       ELSE IF id \in Keys(data)
       THEN /\ resp' = Response("create", id, patient, 400, <<>>)
            /\ UNCHANGED <<file, created, gone>>
       ELSE /\ file' = save_data(file, Put(data, id, payload))
            /\ IF out_raises(id, payload)
               THEN /\ resp' = Response("create", id, patient, 500, <<>>)
                    /\ created' = <<>>
                    /\ gone' = gone
               ELSE /\ resp' = Response("create", id, patient, 201,
                                   <<patient_out(id, payload)>>)
                    /\ created' = <<patient>>
                    /\ gone' = IF gone = id THEN "" ELSE gone
    /\ UNCHANGED <<thr, writer, app>>

\* PUT /edit/{patient_id}
edit_patient(patient_id, patient_update) ==
    LET data == load_data(file)
        existing_data == merge(Lookup(data, patient_id), patient_update)
    IN
    /\ IF ~UpdateValidates(patient_update)
       THEN /\ resp' = Response("edit", patient_id, patient_update, 422, <<>>)
            /\ UNCHANGED <<file, created, gone>>
       ELSE IF load_raises(file)
       THEN /\ resp' = Response("edit", patient_id, patient_update, 500, <<>>)
            /\ UNCHANGED <<file, created, gone>>
       ELSE IF patient_id \notin Keys(data)
       THEN /\ resp' = Response("edit", patient_id, patient_update, 404, <<>>)
            /\ UNCHANGED <<file, created, gone>>
       ELSE IF ~PatientValidates(existing_data)
       THEN /\ resp' = Response("edit", patient_id, patient_update, 400, <<>>)
            /\ UNCHANGED <<file, created, gone>>
       ELSE /\ file' = save_data(file, Put(data, patient_id, existing_data.vals))
            /\ created' = <<>>
            /\ gone' = gone
            /\ resp' =
                 IF out_raises(patient_id, existing_data.vals)
                 THEN Response("edit", patient_id, patient_update, 500, <<>>)
                 ELSE Response("edit", patient_id, patient_update, 200,
                          <<patient_out(patient_id, existing_data.vals)>>)
    /\ UNCHANGED <<thr, writer, app>>

\* DELETE /delete/{patient_id}
delete_patient(patient_id) ==
    LET data == load_data(file)
    IN
    /\ IF load_raises(file)
       THEN /\ resp' = Response("delete", patient_id, <<>>, 500, <<>>)
            /\ UNCHANGED <<file, created, gone>>
       ELSE IF patient_id \notin Keys(data)
       THEN /\ resp' = Response("delete", patient_id, <<>>, 404, <<>>)
            /\ UNCHANGED <<file, created, gone>>
       ELSE /\ file' = save_data(file, Del(data, patient_id))
            /\ created' = <<>>
            /\ gone' = patient_id
            /\ resp' = Response("delete", patient_id, <<>>, 200, <<>>)
    /\ UNCHANGED <<thr, writer, app>>

Next ==
    \/ view_all_patients
    \/ \E id \in Ids : view_patient(id)
    \/ \E q \in SortQueries : sort_patients(q[1], q[2])
    \/ \E patient \in CreateBodies : create_patient(patient)
    \/ \E id \in Ids, u \in UpdateBodies : edit_patient(id, u)
    \/ \E id \in Ids : delete_patient(id)

Spec == Init /\ [][Next]_vars

-----------------------------------------------------------------------------
(* Handlers in threads: FastAPI runs each `def` handler in a thread of its *)
(* pool, so the reads and writes of the file of two calls interleave.  A   *)
(* thread reads the file (load), works on its own dict, opens the file for *)
(* writing (which empties it) and writes the dict (dump).                  *)

MaxCalls == 2

ConcCreateBodies ==
    {Body("P001", "A", 30, "Male", 180, 8000),
     Body("P002", "B", 31, "Female", 100, 2500)}

ConcIds == {"P001", "P002"}

ConcUpdateBodies == {Update([age |-> 31], {})}

CanStart(t) ==
    /\ thr[t].pc \in {"idle", "done"}
    /\ thr[t].calls < MaxCalls

\* The call of thread t returns before it saves.
Return(t, op, id, data, status) ==
    thr' = [thr EXCEPT ![t] = [pc |-> "done", op |-> op, id |-> id,
                               data |-> data, status |-> status,
                               calls |-> @.calls + 1]]

\* The call of thread t goes on to save_data(data).
GoSave(t, op, id, data) ==
    thr' = [thr EXCEPT ![t] = [pc |-> "save", op |-> op, id |-> id,
                               data |-> data, status |-> 0,
                               calls |-> @.calls + 1]]

\* create_patient up to save_data
create_load(t, patient) ==
    LET data == load_data(file)
    IN
    /\ CanStart(t)
    /\ IF load_raises(file)
       THEN Return(t, "create", patient.id, <<>>, 500)
       ELSE IF patient.id \in Keys(data)
       THEN Return(t, "create", patient.id, data, 400)
       ELSE GoSave(t, "create", patient.id,
                Put(data, patient.id, model_dump_exclude_id(patient)))
    /\ UNCHANGED <<file, resp, created, gone, writer, app>>

\* edit_patient up to save_data
edit_load(t, patient_id, patient_update) ==
    LET data == load_data(file)
        existing_data == merge(Lookup(data, patient_id), patient_update)
    IN
    /\ CanStart(t)
    /\ IF load_raises(file)
       THEN Return(t, "edit", patient_id, <<>>, 500)
       ELSE IF patient_id \notin Keys(data)
       THEN Return(t, "edit", patient_id, data, 404)
       ELSE IF ~PatientValidates(existing_data)
       THEN Return(t, "edit", patient_id, data, 400)
       ELSE GoSave(t, "edit", patient_id,
                Put(data, patient_id, existing_data.vals))
    /\ UNCHANGED <<file, resp, created, gone, writer, app>>

\* delete_patient up to save_data
delete_load(t, patient_id) ==
    LET data == load_data(file)
    IN
    /\ CanStart(t)
    /\ IF load_raises(file)
       THEN Return(t, "delete", patient_id, <<>>, 500)
       ELSE IF patient_id \notin Keys(data)
       THEN Return(t, "delete", patient_id, data, 404)
       ELSE GoSave(t, "delete", patient_id, Del(data, patient_id))
    /\ UNCHANGED <<file, resp, created, gone, writer, app>>

\* save_data: open(DATA_FILE, "w")
save_open(t) ==
    /\ thr[t].pc = "save"
    /\ file' = open_w(file)
    /\ thr' = [thr EXCEPT ![t].pc = "dump"]
    /\ UNCHANGED <<resp, created, gone, writer, app>>

\* save_data: json.dump and close; then the handler builds its answer.
save_dump(t) ==
    /\ thr[t].pc = "dump"
    /\ file' = dump(file, thr[t].data)
    /\ writer' = t
    /\ thr' = [thr EXCEPT ![t].pc = "done",
                          ![t].status =
                             IF thr[t].op = "delete" THEN 200
                             ELSE IF out_raises(thr[t].id,
                                        Lookup(thr[t].data, thr[t].id))
                             THEN 500
                             ELSE IF thr[t].op = "create" THEN 201 ELSE 200]
    /\ UNCHANGED <<resp, created, gone, app>>

InitConc ==
    /\ file \in {NoFile, JsonFile(<<>>)}
    /\ resp = NoResponse
    /\ created = <<>>
    /\ gone = ""
    /\ thr = [t \in Threads |-> Idle]
    /\ writer = 0
    /\ app = AppIdle

NextConc ==
    \/ \E t \in Threads, patient \in ConcCreateBodies : create_load(t, patient)
    \/ \E t \in Threads, id \in ConcIds, u \in ConcUpdateBodies : edit_load(t, id, u)
    \/ \E t \in Threads, id \in ConcIds : delete_load(t, id)
    \/ \E t \in Threads : save_open(t)
    \/ \E t \in Threads : save_dump(t)

SpecConc == InitConc /\ [][NextConc]_vars

-----------------------------------------------------------------------------
(* The predictor: class UserInput and predict_risk of app.py               *)

TIER_1_CITIES == {"Kathmandu", "Pokhara"}
TIER_2_CITIES == {"Butwal", "Lalitpur", "Biratnagar"}

\* lifestyle_risk with the limits counted in (>= for >).
lifestyle_risk_Inclusive(smoker, b) ==
    IF smoker /\ b >= 3000 THEN "High"
    ELSE IF smoker \/ b >= 2700 THEN "Medium"
    ELSE "Low"

\* UserInput.lifestyle_risk, of the smoker flag and the rounded bmi.
lifestyle_risk(smoker, b) ==
    IF smoker /\ b > 3000 THEN "High"
    ELSE IF smoker \/ b > 2700 THEN "Medium"
    ELSE "Low"

age_group(age) ==
    IF age < 25 THEN "young"
    ELSE IF age < 45 THEN "adult"
    ELSE IF age < 60 THEN "middle_aged"
    ELSE "senior"

city_tier(city) ==
    IF city \in TIER_1_CITIES THEN 1
    ELSE IF city \in TIER_2_CITIES THEN 2
    ELSE 3

\* Valid UserInput objects: the fields the derived features read.
UserInputs ==
    [age : {24, 25, 60},
     weight : {2000, 2700, 2701, 3000, 3001, 10801, 12001, 12100},
     height : {100, 200},
     smoker : BOOLEAN,
     city : {"Kathmandu", "Butwal", "kathmandu"}]

\* predict_risk: the feature row, then model.predict, which gives a label
\* (200) or raises (500).  The label itself is the model's and is not kept.
predict_risk(user_input, predicts) ==
    /\ app' = [in |-> user_input,
               out |-> [bmi |-> bmi(user_input.weight, user_input.height),
                        age_group |-> age_group(user_input.age),
                        lifestyle_risk |->
                            lifestyle_risk(user_input.smoker,
                                bmi(user_input.weight, user_input.height)),
                        city_tier |-> city_tier(user_input.city)],
               status |-> IF predicts THEN 200 ELSE 500]
    /\ UNCHANGED <<file, resp, created, gone, thr, writer>>

InitApp ==
    /\ file = NoFile
    /\ resp = NoResponse
    /\ created = <<>>
    /\ gone = ""
    /\ thr = [t \in Threads |-> Idle]
    /\ writer = 0
    /\ app = AppIdle

NextApp ==
    \E user_input \in UserInputs, predicts \in BOOLEAN :
       predict_risk(user_input, predicts)

SpecApp == InitApp /\ [][NextApp]_vars

-----------------------------------------------------------------------------
(* Properties of the registry, one request at a time (Spec)                *)

\* The stored value an edit leaves for one field.
Merged(old, u, f) == IF f \in DOMAIN u.vals THEN u.vals[f] ELSE old[f]

\* The full Patient schema, field by field.
SchemaHolds(r) ==
    /\ Len(r.name) <= 50
    /\ 0 < r.age /\ r.age < 120
    /\ r.gender \in {"Male", "Female", "Other"}
    /\ FloatGt0(r.height)
    /\ FloatGt0(r.weight)

\* C1: create of a valid record on a readable store: an id that is already a
\* key gives 400 and leaves the file as it was; any other id gives 201 and
\* the store is the old store with one entry added, keyed by the id, holding
\* the record's five other fields, every older entry unchanged.
C1_CreateContract ==
    [][(/\ resp'.op = "create"
        /\ ~load_raises(file)
        /\ SchemaHolds(resp'.arg))
       => LET p == resp'.arg
              old == load_data(file)
          IN  IF p.id \in Keys(old)
              THEN resp'.status = 400 /\ file' = file
              ELSE /\ resp'.status = 201
                   /\ file'.kind = "json"
                   /\ file'.data = Append(old,
                          [id |-> p.id,
                           payload |-> [name |-> p.name, age |-> p.age,
                                        gender |-> p.gender,
                                        height |-> p.height,
                                        weight |-> p.weight]])]_vars

\* C1 without the created status: what create does to the store.
C1_CreateStore ==
    [][(/\ resp'.op = "create"
        /\ ~load_raises(file)
        /\ SchemaHolds(resp'.arg))
       => LET p == resp'.arg
              old == load_data(file)
          IN  IF p.id \in Keys(old)
              THEN resp'.status = 400 /\ file' = file
              ELSE /\ resp'.status = (IF p.height = 0 THEN 500 ELSE 201)
                   /\ file'.kind = "json"
                   /\ file'.data = Append(old,
                          [id |-> p.id,
                           payload |-> [name |-> p.name, age |-> p.age,
                                        gender |-> p.gender,
                                        height |-> p.height,
                                        weight |-> p.weight]])]_vars

\* C2: an edit that answers 200 leaves, for its id, every field the payload
\* names at the payload's value and every other field at its old value; the
\* ids of the store and their order are the same, and so is every other
\* patient's record.
C2_PartialUpdateFrame ==
    [][(resp'.op = "edit" /\ resp'.status = 200)
       => LET u == resp'.arg
              old == load_data(file)
              new == load_data(file')
          IN  /\ file'.kind = "json"
              /\ Len(new) = Len(old)
              /\ resp'.id \in Keys(old)
              /\ \A i \in DOMAIN old :
                    /\ new[i].id = old[i].id
                    /\ new[i].id # resp'.id => new[i] = old[i]
                    /\ new[i].id = resp'.id =>
                          /\ DOMAIN new[i].payload = Fields
                          /\ \A f \in Fields :
                                new[i].payload[f] = Merged(old[i].payload, u, f)]_vars

C2_Witness ==
    /\ resp.op = "edit" /\ resp.status = 200 /\ resp.id = "P001"
    /\ DOMAIN resp.arg.vals = {"age"}
    /\ file.kind = "json" /\ Len(file.data) = 3
    /\ "P001" \in Keys(file.data)
    /\ Lookup(file.data, "P001") =
          [name |-> "A", age |-> 31, gender |-> "Male", height |-> 180,
           weight |-> 8000]

\* C3: an edit whose payload parses, on a readable store: an absent id gives
\* 404; an existing id whose merged record breaks the Patient schema (a
\* field given as null, an age of 120 or more, a name over 50 characters)
\* gives 400; after a 404 or a 400 the file is what it was.
C3_PartialUpdateRejection ==
    [][(/\ resp'.op = "edit"
        /\ ~load_raises(file)
        /\ resp'.status # 422)
       => LET u == resp'.arg
              old == load_data(file)
          IN  /\ resp'.id \notin Keys(old) => resp'.status = 404
              /\ (/\ resp'.id \in Keys(old)
                  /\ \/ u.nulls # {}
                     \/ ~SchemaHolds([f \in Fields |->
                            Merged(Lookup(old, resp'.id), u, f)]))
                 => resp'.status = 400
              /\ resp'.status \in {400, 404} => file' = file]_vars

C3_Witness ==
    /\ resp.op = "edit" /\ resp.status = 400 /\ resp.id = "P001"
    /\ resp.arg.nulls = {} /\ DOMAIN resp.arg.vals = {"age"}
    /\ resp.arg.vals.age = 120
    /\ file.kind = "json"
    /\ "P001" \in Keys(file.data)
    /\ Lookup(file.data, "P001").age = 30

\* What delete does to the store: delete of an absent id gives 404 and
\* leaves the file; delete of an existing id gives 200 and removes that
\* entry and no other.
DeleteContract ==
    resp'.op = "delete" =>
       LET old == load_data(file)
           id == resp'.id
       IN  IF id \notin Keys(old)
           THEN resp'.status = 404 /\ file' = file
           ELSE /\ resp'.status = 200
                /\ file'.kind = "json"
                /\ file'.data = SelectSeq(old, LAMBDA e : e.id # id)

\* C4: on a readable store, delete of an absent id gives 404 and changes
\* nothing, delete of an existing id removes exactly that entry, and from
\* then on get, edit and delete of that id give 404 until a create of the
\* id succeeds (201).
C4_DeleteThenGet ==
    [][~load_raises(file) =>
          /\ DeleteContract
          /\ (/\ gone # ""
              /\ resp'.op \in {"get", "edit", "delete"}
              /\ resp'.id = gone
              /\ resp'.status # 422)
             => resp'.status = 404]_vars

\* C4 for as long as the deleted id is not back in the store: it comes back
\* by a create of that id alone, one answering 201 or answering 500 after
\* save_data.
C4_DeleteThenGetWhileAbsent ==
    [][~load_raises(file) =>
          /\ DeleteContract
          /\ (/\ gone # ""
              /\ gone \notin Keys(load_data(file))
              /\ resp'.op \in {"get", "edit", "delete"}
              /\ resp'.id = gone
              /\ resp'.status # 422)
             => resp'.status = 404
          /\ (gone # "" /\ gone \notin Keys(load_data(file))
                        /\ gone \in Keys(load_data(file')))
             => (/\ resp'.op = "create" /\ resp'.id = gone
                 /\ resp'.status \in {201, 500})]_vars

Abs(x) == IF x < 0 THEN -x ELSE x

\* C5: a get of the id of the last created patient, nothing saved since,
\* answers 200 with the six fields given at creation, bmi the hundredth
\* nearest to weight / height^2, and the verdict of that bmi: Underweight
\* below 18.5, Normal from 18.5, Overweight from 25, Obese from 30.
C5_RoundTrip ==
    (resp.op = "get" /\ created # <<>> /\ resp.id = created[1].id)
    => LET p == created[1]
       IN  /\ resp.status = 200
           /\ Len(resp.body) = 1
           /\ DOMAIN resp.body[1] = Fields \cup {"id", "bmi", "verdict"}
           /\ \A f \in Fields \cup {"id"} : resp.body[1][f] = p[f]
           /\ 2 * Abs(resp.body[1].bmi * p.height * p.height - p.weight * 10000)
                 <= p.height * p.height
           /\ resp.body[1].verdict =
                 CASE resp.body[1].bmi < 1850 -> "Underweight"
                   [] resp.body[1].bmi >= 1850 /\ resp.body[1].bmi < 2500 -> "Normal"
                   [] resp.body[1].bmi >= 2500 /\ resp.body[1].bmi < 3000 -> "Overweight"
                   [] resp.body[1].bmi >= 3000 -> "Obese"

C5_Witness ==
    /\ resp.op = "get" /\ created # <<>> /\ resp.id = created[1].id
    /\ resp.status = 200
    /\ created[1].weight = 9999 /\ created[1].height = 200
    /\ resp.body[1].bmi = 2500 /\ resp.body[1].verdict = "Overweight"
    /\ Len(file.data) = 2

\* The answer GET /sort owes for the query in resp and the store in file.
SortContract ==
    LET by == resp.arg.sort_by
        data == load_data(file)
        out == resp.body
        Pos(id) == CHOOSE i \in DOMAIN data : data[i].id = id
    IN  IF by \in {"height", "weight", "bmi"} /\ resp.arg.order \in {"asc", "desc"}
        THEN /\ resp.status = 200
             /\ Len(out) = Len(data)
             /\ \A i \in DOMAIN data :
                   /\ Cardinality({j \in DOMAIN out : out[j].id = data[i].id}) = 1
                   /\ \A j \in DOMAIN out :
                         out[j].id = data[i].id =>
                            \A f \in Fields : out[j][f] = data[i].payload[f]
             /\ \A i, j \in DOMAIN out :
                   i < j =>
                      /\ resp.arg.order = "asc" => out[i][by] <= out[j][by]
                      /\ resp.arg.order = "desc" => out[i][by] >= out[j][by]
                      /\ out[i][by] = out[j][by] => Pos(out[i].id) < Pos(out[j].id)
        ELSE resp.status = 400

\* C6: sort by height, weight or bmi, asc or desc, answers every stored
\* record once, in the order of the key, records of equal key in the store's
\* order; any other sort_by or order answers 400.
C6_Sort == (resp.op = "sort" /\ ~load_raises(file)) => SortContract

\* C6 for the stores whose every record has a bmi.
C6_SortWhenDerivable ==
    (/\ resp.op = "sort"
     /\ ~load_raises(file)
     /\ \A i \in DOMAIN load_data(file) : load_data(file)[i].payload.height # 0)
    => SortContract

C6_SortWitness ==
    /\ resp.op = "sort" /\ resp.status = 200
    /\ resp.arg.order = "desc" /\ resp.arg.sort_by = "bmi"
    /\ Len(resp.body) = 3
    /\ resp.body[1].bmi > resp.body[2].bmi
    /\ resp.body[2].bmi = resp.body[3].bmi
    /\ resp.body[2].height # resp.body[3].height

\* What every operation owes on a file of one of `kinds`, as on an empty
\* store: list and sort answer an empty array, get, edit and delete 404,
\* create of a valid record one of `statuses` and a store of that record alone.
EmptyStoreContract(kinds, statuses) ==
    file.kind \in kinds =>
       /\ resp'.op = "list" => resp'.status = 200 /\ resp'.body = <<>>
       /\ resp'.op = "sort" =>
             IF resp'.arg.sort_by \in {"height", "weight", "bmi"}
                /\ resp'.arg.order \in {"asc", "desc"}
             THEN resp'.status = 200 /\ resp'.body = <<>>
             ELSE resp'.status = 400
       /\ resp'.op \in {"get", "delete"} => resp'.status = 404 /\ file' = file
       /\ (resp'.op = "edit" /\ resp'.status # 422)
             => resp'.status = 404 /\ file' = file
       /\ (resp'.op = "create" /\ SchemaHolds(resp'.arg))
             => /\ resp'.status \in statuses
                /\ file'.kind = "json"
                /\ Keys(file'.data) = {resp'.id}
                /\ Len(file'.data) = 1

\* C8: a missing file, and a file that is no JSON document, is an empty
\* store to every operation, and none answers a storage error.
C8_MissingOrCorrupt ==
    [][EmptyStoreContract({"missing", "empty", "garbage", "binary"}, {201})]_vars

\* C8 for the files that are UTF-8 text, the create that answers 500 after
\* it has saved counted in.
C8_MissingOrText ==
    [][EmptyStoreContract({"missing", "empty", "garbage"}, {201, 500})]_vars

\* C9: every value of the persisted store has exactly the five fields name,
\* age, gender, height and weight, and satisfies the Patient schema.
C9_PersistedValid ==
    file.kind = "json" =>
       \A i \in DOMAIN file.data :
          /\ DOMAIN file.data[i] = {"id", "payload"}
          /\ DOMAIN file.data[i].payload = Fields
          /\ SchemaHolds(file.data[i].payload)

C9_Witness ==
    /\ file.kind = "json" /\ Len(file.data) = 3
    /\ resp.op = "edit" /\ resp.status = 400
    /\ \E i \in DOMAIN file.data : file.data[i].payload.height = 0
    /\ \E i \in DOMAIN file.data :
          file.data[i].id = "P001" /\ file.data[i].payload.age = 31
                                   /\ file.data[i].payload.height = 180

-----------------------------------------------------------------------------
(* Properties of the handlers in threads (SpecConc)                        *)

\* C7: the file is written whole: once a call has saved and returned with
\* success, and no other write has come since, a parseable file is exactly
\* that call's own dict (what it read, with its one change), whatever other
\* calls saved in between.
C7_LastWriteWins ==
    \A t \in Threads :
       (/\ writer = t
        /\ thr[t].pc = "done"
        /\ thr[t].status \in {200, 201}
        /\ file.kind = "json")
       => file.data = thr[t].data

\* Two creates of different ids, one call per thread, both answered 201,
\* and the file holds the record of the later writer alone.
C7_LostUpdate ==
    /\ \A t \in Threads :
          /\ thr[t].pc = "done" /\ thr[t].calls = 1
          /\ thr[t].op = "create" /\ thr[t].status = 201
    /\ thr[1].id # thr[2].id
    /\ writer \in Threads
    /\ file.kind = "json"
    /\ Keys(file.data) = {thr[writer].id}

-----------------------------------------------------------------------------
(* Properties of the predictor (SpecApp)                                   *)

\* C10: the risk is High exactly when smoker and bmi > 30, Medium exactly
\* when it is not High and (smoker or bmi > 27), Low otherwise; so a smoker
\* is never Low and a non-smoker never High, and a bmi of exactly 27 or 30
\* is on the low side of its limit.
C10_LifestyleRisk ==
    app.in # <<>> =>
       LET sm == app.in.smoker
           b == app.out.bmi
           risk == app.out.lifestyle_risk
           high == sm /\ b > 3000
           medium == ~high /\ (sm \/ b > 2700)
       IN  /\ risk \in {"High", "Medium", "Low"}
           /\ risk = "High" <=> high
           /\ risk = "Medium" <=> medium
           /\ risk = "Low" <=> (~high /\ ~medium)
           /\ sm => risk # "Low"
           /\ ~sm => risk # "High"

C10_Witness ==
    /\ app.in # <<>>
    /\ app.in.smoker /\ app.out.bmi = 3000
    /\ app.out.lifestyle_risk = "Medium"

====
